---- MODULE Spec2Model ----
(***************************************************************************)
(* The phase-gated supervisor graph of the research agent: one run of the  *)
(* LangGraph StateGraph built by build_research_graph, its shared          *)
(* ResearchState, the supervisor tick and the specialist nodes.            *)
(*                                                                         *)
(* The state of the run is one record, `state`, whose fields are the keys  *)
(* of ResearchState.  Every node returns a patch (a record over a subset   *)
(* of the keys) and the driver merges it with the reducers state.py        *)
(* declares (Merge).  Delegates (language models, tools) are the           *)
(* environment: every result a node's code accepts is drawn with \E.       *)
(*                                                                         *)
(* Queries are natural numbers standing for distinct texts.  A fact is an  *)
(* integer: f > 0 is a fact dict whose text is f, f < 0 a dict without a   *)
(* text.  A fact keeps its number when the verifier copies it to           *)
(* verified_facts.                                                         *)
(* The audit log is kept as its length and its last action tag (the merge  *)
(* is append-only, so both are exact); patches carry the appended tags.    *)
(* The text of the prompts is not modelled: a delegate's answer is any     *)
(* value of its result type.                                               *)
(*                                                                         *)
(* Four calls are also followed on their own, each under a specification   *)
(* of its own in which the graph stands still: one ModelRouter.invoke call *)
(* (router), one graph_builder_node call write by write (builder), one     *)
(* job with its event queue and stream consumers (stream), and one         *)
(* message history read by a node (extraction).                            *)
(***************************************************************************)
EXTENDS Integers, Sequences, FiniteSets, TLC

\* ---------------------------------------------------------------- bounds
\* recursion_limit of a run whose routing delegate answers anything.
MaxSupersteps == 10
\* recursion_limit of a run whose routing delegate follows the decision table.
MaxRuleSupersteps == 16
\* Cap on len(extracted_facts).
MaxFacts == 10
\* Largest max_depth a request is started with.
MaxDepth == 2
\* Supersteps of a run of the dynamic-phases graph.
MaxDynamicSupersteps == 8
\* Most phases a planning delegate returns.
MaxPlanGen == 2
\* Most phases a phase-strategy delegate adds.
MaxAddPhases == 2
\* Most models in a task's chain: the primary and its fallbacks.
MaxChain == 3
\* Entities and relationships of the state a graph-builder call reads.
MaxEntities == 2

MaxRelationships == 2
\* Graph-builder invocations on one sink.
MaxInvocations == 2
\* Events a run emits, consumers of its stream, messages of a tool-use
\* history.
MaxEvents == 2

MaxConsumers == 2

MaxMessages == 2
\* Number of distinct query texts a delegate can produce.
MaxQueries == 7

\* ------------------------------------------------------ program constants
MAX_QUERIES_PER_BATCH == 6
\* "facts_count >= 5" of rule 5 of the decision table.
MIN_FACTS_FOR_VERIFIER == 5

RunId == "r1"
NULL == "None"

VARIABLES
    state,            \* the ResearchState of the run
    pc,               \* node the driver runs next, or a terminal status
    supersteps,       \* LangGraph supersteps taken
    recursion_limit,  \* config["recursion_limit"] of the run
    cancelled_jobs,   \* _cancelled_jobs
    delegate,         \* what the last node invocation got from its delegate
    rounds,           \* how each tool-use round of that invocation ended
    verifier_seen,    \* per extracted fact: verifier invocations it was presented in
    risk_seen,        \* per verified_facts element: risk delegate calls it was presented in
    risk_seen_extracted, \* extracted facts presented to the risk delegate by the fallback
    router,           \* one ModelRouter.invoke call: its chain and how far it got
    builder,          \* one graph_builder_node call: its input and how far it got
    stream,           \* one job, its event queue and the consumers of its stream
    extraction        \* one message history and what a node extracted from it

vars == <<state, pc, supersteps, recursion_limit, cancelled_jobs, delegate,
          rounds, verifier_seen, risk_seen, risk_seen_extracted, router,
          builder, stream, extraction>>

\* The calls followed on their own, outside the run of the graph.
aside == <<router, builder, stream, extraction>>

ghosts == <<verifier_seen, risk_seen, risk_seen_extracted>>

graph_vars == <<state, pc, supersteps, recursion_limit, cancelled_jobs, delegate,
                rounds, ghosts>>

Terminal == {"END", "failed", "cancelled"}

\* ------------------------------------------------------------- helpers
Range(s) == {s[i] : i \in 1..Len(s)}

Min(a, b) == IF a < b THEN a ELSE b

\* Python's s[a:b] for 0 <= a, 0 <= b.
Slice(s, a, b) == SubSeq(s, a + 1, Min(b, Len(s)))

\* Python's s[a:].
SliceFrom(s, a) == SubSeq(s, a + 1, Len(s))

\* The texts a, a+1, .., b as a list.
Ids(a, b) == [i \in 1..(b - a + 1) |-> a + i - 1]

EmptyPatch == [k \in {} |-> FALSE]

\* The text under a fact's "fact" key, f.get("fact", ""): the fact f > 0
\* carries the text f, any other fact is a dict without that text.
NoText == 0

FactText(f) == IF f > 0 THEN f ELSE NoText

Texts(facts) == [i \in 1..Len(facts) |-> FactText(facts[i])]

\* ------------------------------------------------- state.py: reducers
\* The fields ResearchState annotates with _merge_lists.
AppendFields ==
    {"search_queries_executed", "extracted_facts", "entities", "relationships",
     "contradictions", "verified_facts", "unverified_claims", "risk_flags",
     "graph_nodes_created", "graph_relationships_created", "errors",
     "audit_log"}

\* A reducer that keeps the patch's list alone.
merge_lists_overwrites(left, right) == right

merge_lists(left, right) == left \o right

merge_sets(left, right) == left \cup right

\* audit_log under merge_lists, kept as (length, last tag).
MergeAudit(left, right) ==
    IF right = <<>> THEN left
    ELSE [n |-> left.n + Len(right), last |-> right[Len(right)]]

Merge(s, patch) ==
    [k \in DOMAIN s |->
        IF k \notin DOMAIN patch THEN s[k]
        ELSE IF k = "audit_log" THEN MergeAudit(s[k], patch[k])
        ELSE IF k \in AppendFields THEN merge_lists(s[k], patch[k])
        ELSE IF k = "urls_visited" THEN merge_sets(s[k], patch[k])
        ELSE patch[k]]

\* --------------------------------------------- research.py: initial_state
InitialState(max_phases, dynamic) ==
    [ next_action |-> "",
      research_plan |-> <<>>,
      current_phase |-> 0,
      max_phases |-> max_phases,
      dynamic_phases |-> dynamic,
      iteration_count |-> 0,
      phase_complete |-> FALSE,
      pending_queries |-> <<>>,
      current_phase_searched |-> FALSE,
      current_phase_verified |-> FALSE,
      current_phase_risk_assessed |-> FALSE,
      facts_verified_count |-> 0,
      risk_assessed_facts_count |-> 0,
      search_queries_executed |-> <<>>,
      urls_visited |-> {},
      extracted_facts |-> <<>>,
      verified_facts |-> <<>>,
      unverified_claims |-> <<>>,
      risk_flags |-> <<>>,
      overall_risk_score |-> NULL,
      final_report |-> NULL,
      audit_log |-> [n |-> 0, last |-> NULL] ]

\* ------------------------------------------------ supervisor.py, edges.py
\* Names a routing decision can carry: the graph's nodes, the two names the
\* decision table uses that are no graph node, and FINISH.
valid_agents ==
    {"planner", "query_refiner", "search_and_analyze", "verifier",
     "risk_assessor", "graph_builder", "synthesizer"}

DecisionNames == valid_agents \cup {"search_and_scrape", "analyzer", "FINISH"}

Dispatch(s, agents) == IF s.next_action \in agents THEN s.next_action ELSE "END"

route_from_supervisor(s) == Dispatch(s, valid_agents)

\* A cancellation patch that records nothing in the audit log.
CancelledPatchSilent(s) ==
    [ next_action |-> "FINISH",
      iteration_count |-> s.iteration_count + 1 ]

\* The patch of a tick that finds the run in the cancellation set.
CancelledPatch(s) ==
    [ next_action |-> "FINISH",
      iteration_count |-> s.iteration_count + 1,
      audit_log |-> <<"cancelled">> ]

\* A phase advance that clears phase_complete and leaves the three flags.
PhaseAdvanceKeepsFlags(s, next_agent) ==
    IF next_agent = "query_refiner" /\ s.phase_complete
    THEN [ current_phase |-> s.current_phase + 1,
           phase_complete |-> FALSE ]
    ELSE EmptyPatch

\* The phase-advance part of the routing patch (supervisor.py 124-133).
PhaseAdvance(s, next_agent) ==
    IF next_agent = "query_refiner" /\ s.phase_complete
    THEN [ current_phase |-> s.current_phase + 1,
           phase_complete |-> FALSE,
           current_phase_searched |-> FALSE,
           current_phase_verified |-> FALSE,
           current_phase_risk_assessed |-> FALSE ]
    ELSE EmptyPatch

\* The patch of a tick whose delegate returned `result`: a decision names
\* next_agent, anything else counts as FINISH.
RoutePatch(s, result) ==
    LET next_agent == IF result.kind = "decision" THEN result.next_agent ELSE "FINISH"
    IN  PhaseAdvance(s, next_agent) @@
        [ next_action |-> next_agent,
          iteration_count |-> s.iteration_count + 1,
          audit_log |-> <<"route_decision">> ]

\* What router.invoke("supervisor", ..) can hand back to the tick.
SupervisorResults ==
    {[kind |-> "decision", next_agent |-> a] : a \in DecisionNames}
        \cup {[kind |-> "not_a_decision"]}

\* One step of the driver that ran a node to completion and merged `patch`;
\* `ended` tells how the node's tool-use rounds ended, if it ran any.
MergedAfter(patch, next_pc, outcome, ended) ==
    /\ state' = Merge(state, patch)
    /\ pc' = next_pc
    /\ supersteps' = supersteps + 1
    /\ delegate' = outcome
    /\ rounds' = ended
    /\ UNCHANGED <<recursion_limit, aside>>

Merged(patch, next_pc, outcome) == MergedAfter(patch, next_pc, outcome, <<>>)

\* A node raised: the driver marks the run failed (research.py 490-499).
RaisedAfter(ended) ==
    /\ pc' = "failed"
    /\ delegate' = "raised"
    /\ rounds' = ended
    /\ UNCHANGED <<state, supersteps, recursion_limit, cancelled_jobs, ghosts,
                   aside>>

Raised == RaisedAfter(<<>>)

Running(node) == pc = node /\ supersteps < recursion_limit

\* A tick with the delegate's result fixed, dispatched to one of `agents`.
SupervisorRoutes(result, agents) ==
    /\ RunId \notin cancelled_jobs
    /\ LET patch == RoutePatch(state, result)
       IN  Merged(patch, Dispatch(Merge(state, patch), agents), "returned")
    /\ UNCHANGED <<cancelled_jobs, ghosts>>

SupervisorTick(result) == SupervisorRoutes(result, valid_agents)

SupervisorCancelled ==
    /\ RunId \in cancelled_jobs
    /\ LET patch == CancelledPatch(state)
       IN  Merged(patch, route_from_supervisor(Merge(state, patch)), "not_called")
    /\ cancelled_jobs' = cancelled_jobs \ {RunId}
    /\ UNCHANGED ghosts

SupervisorRaises ==
    /\ RunId \notin cancelled_jobs
    /\ Raised

supervisor_node ==
    /\ Running("supervisor")
    /\ \/ SupervisorCancelled
       \/ \E result \in SupervisorResults : SupervisorTick(result)
       \/ SupervisorRaises

\* The graph of the dynamic-phases variant, which also registers the phase
\* strategist as a node the supervisor can route to.
dynamic_agents == valid_agents \cup {"phase_strategist"}

DynamicResults ==
    SupervisorResults \cup {[kind |-> "decision", next_agent |-> "phase_strategist"]}

supervisor_node_dynamic ==
    /\ Running("supervisor")
    /\ \/ SupervisorCancelled
       \/ \E result \in DynamicResults : SupervisorRoutes(result, dynamic_agents)
       \/ SupervisorRaises

\* ----------------------------- prompts/supervisor.py: the decision table
has_plan(s) == s.research_plan # <<>>

has_report(s) == s.final_report \notin {NULL, ""}

\* current_phase_searched stands for searched and analyzed (state.py 46-48).
PhaseAnalyzed(s) == s.current_phase_searched

Rules == 1..10

Rule(i, s) ==
    CASE i = 1 -> ~has_plan(s)
      [] i = 2 -> has_plan(s) /\ Len(s.pending_queries) = 0 /\ ~s.current_phase_searched
      [] i = 3 -> Len(s.pending_queries) > 0
      [] i = 4 -> s.current_phase_searched /\ ~PhaseAnalyzed(s)
      [] i = 5 -> /\ PhaseAnalyzed(s)
                  /\ Len(s.extracted_facts) >= MIN_FACTS_FOR_VERIFIER
                  /\ ~s.current_phase_verified
      [] i = 6 -> s.current_phase_verified /\ ~s.current_phase_risk_assessed
      [] i = 7 -> s.current_phase_risk_assessed /\ ~s.phase_complete
      [] i = 8 -> s.phase_complete /\ s.current_phase < s.max_phases
      [] i = 9 -> s.phase_complete /\ s.current_phase >= s.max_phases
      [] i = 10 -> has_report(s)

\* The name each rule tells the delegate to answer.
RuleAgent(i) ==
    CASE i = 1 -> "planner"
      [] i = 2 -> "query_refiner"
      [] i = 3 -> "search_and_scrape"
      [] i = 4 -> "analyzer"
      [] i = 5 -> "verifier"
      [] i = 6 -> "risk_assessor"
      [] i = 7 -> "graph_builder"
      [] i = 8 -> "query_refiner"
      [] i = 9 -> "synthesizer"
      [] i = 10 -> "FINISH"

\* The first rule that matches, 0 when none does.
FirstRule(s) ==
    IF \E i \in Rules : Rule(i, s)
    THEN CHOOSE i \in Rules : Rule(i, s) /\ \A j \in 1..(i - 1) : ~Rule(j, s)
    ELSE 0

\* The graph node a rule's name stands for: the search step of the table is
\* registered in the graph as search_and_analyze.
RuleStep(i) ==
    IF RuleAgent(i) = "search_and_scrape" THEN "search_and_analyze" ELSE RuleAgent(i)

\* The answers of a delegate that follows the table: the step of the first
\* matching rule; the table leaves the answer open when no rule matches.
RuleResults(s) ==
    IF FirstRule(s) = 0 THEN SupervisorResults
    ELSE {[kind |-> "decision", next_agent |-> RuleStep(FirstRule(s))]}

supervisor_follows_rules ==
    /\ Running("supervisor")
    /\ \/ SupervisorCancelled
       \/ \E result \in RuleResults(state) : SupervisorTick(result)
       \/ SupervisorRaises

\* ------------------------------------------------------ nodes/planner.py
\* A phase descriptor as a planning delegate numbers it.
Phase(n, queries) == [phase_number |-> n, queries |-> queries]

\* The phases of the ResearchPlan results of the delegate: k phases
\* numbered 1..k.
PlannerResults == {[n \in 1..k |-> Phase(n, <<n>>)] : k \in 0..MaxPlanGen}

\* What router.invoke hands the planner: a ResearchPlan with the phases the
\* delegate wrote, or a value of another type.
PlannerOutputs ==
    {[is_plan |-> TRUE, phases |-> phases] : phases \in PlannerResults}
        \cup {[is_plan |-> FALSE]}

\* planner.py 52-53: the phases of the result, none when it is no plan.
plan_phases(result) == IF result.is_plan THEN result.phases ELSE <<>>

\* A planner that keeps every phase the delegate wrote.
PlannerPatchUntrimmed(s, phases) ==
    [ research_plan |-> phases,
      current_phase |-> 1,
      phase_complete |-> FALSE,
      current_phase_searched |-> FALSE,
      current_phase_verified |-> FALSE,
      current_phase_risk_assessed |-> FALSE,
      audit_log |-> <<"generate_plan">> ]

PlannerPatch(s, phases) ==
    LET plan_dicts == IF Len(phases) > s.max_phases
                      THEN SubSeq(phases, 1, s.max_phases) ELSE phases
    IN  [ research_plan |-> plan_dicts,
          current_phase |-> 1,
          phase_complete |-> FALSE,
          current_phase_searched |-> FALSE,
          current_phase_verified |-> FALSE,
          current_phase_risk_assessed |-> FALSE,
          audit_log |-> <<"generate_plan">> ]

planner_node ==
    /\ Running("planner")
    /\ \/ \E result \in PlannerOutputs :
            Merged(PlannerPatch(state, plan_phases(result)), "supervisor",
                   "returned")
            /\ UNCHANGED <<cancelled_jobs, ghosts>>
       \/ Raised

\* ------------------------------------------------ nodes/query_refiner.py
\* RefinedQueries results of the delegate: the texts 1..n.
RefinerResults == {Ids(1, n) : n \in {0, 2, MaxQueries}}

\* A refiner that hands the delegate's queries on without looking at the
\* executed ones.
QueryRefinerPatchUnfiltered(s, queries) ==
    [ pending_queries |-> queries,
      audit_log |-> <<"generate_queries">> ]

QueryRefinerPatch(s, queries) ==
    LET executed == {q.query : q \in Range(s.search_queries_executed)}
    IN  [ pending_queries |-> SelectSeq(queries, LAMBDA q : q \notin executed),
          audit_log |-> <<"generate_queries">> ]

query_refiner_node ==
    /\ Running("query_refiner")
    /\ \/ \E queries \in RefinerResults :
            Merged(QueryRefinerPatch(state, queries), "supervisor", "returned")
            /\ UNCHANGED <<cancelled_jobs, ghosts>>
       \/ Raised

\* ------------------------------------------- nodes/search_and_analyze.py
\* The record kept for an executed query (search_and_analyze.py 257-264).
Executed(q, facts) == [query |-> q, results_count |-> Len(facts)]

\* The pages the delegate's web_scrape calls name: one for each fact it
\* submits with a text, numbered as the fact.
ScrapedUrls(facts) == Range(Texts(facts)) \ {NoText}

\* A pass that records its batch and leaves no query pending.
SearchPatchDropsRest(s, facts) ==
    [ search_queries_executed |->
          [i \in 1..Min(Len(s.pending_queries), MAX_QUERIES_PER_BATCH) |->
              Executed(s.pending_queries[i], facts)],
      urls_visited |-> s.urls_visited \cup ScrapedUrls(facts),
      pending_queries |-> <<>>,
      extracted_facts |-> facts,
      current_phase_searched |-> TRUE,
      audit_log |-> <<"search_and_extract">> ]

\* The patch of a pass whose submit_findings call carried `facts`.
SearchPatch(s, facts) ==
    LET pending == s.pending_queries
        queries_batch == Slice(pending, 0, MAX_QUERIES_PER_BATCH)
        remaining_queries == SliceFrom(pending, MAX_QUERIES_PER_BATCH)
    IN  [ search_queries_executed |->
              [i \in 1..Len(queries_batch) |-> Executed(queries_batch[i], facts)],
          urls_visited |-> s.urls_visited \cup ScrapedUrls(facts),
          pending_queries |-> remaining_queries,
          extracted_facts |-> facts,
          current_phase_searched |-> (Len(remaining_queries) = 0),
          audit_log |-> <<"search_and_extract">> ]

\* Facts one submit_findings call can carry: none, or enough for rule 5,
\* all with a text or the first of them without.  The dicts are the tool
\* call's arguments as the delegate wrote them.
Findings(s) ==
    LET have == Len(s.extracted_facts)
        new == Ids(have + 1, have + MIN_FACTS_FOR_VERIFIER)
    IN  {<<>>} \cup
        (IF have + MIN_FACTS_FOR_VERIFIER <= MaxFacts
         THEN {new, [i \in 1..Len(new) |-> IF i = 1 THEN 0 - new[i] ELSE new[i]]}
         ELSE {})

SearchSkipped ==
    /\ state.pending_queries = <<>>
    /\ Merged(EmptyPatch, "supervisor", "not_called")
    /\ UNCHANGED <<cancelled_jobs, ghosts>>

SearchRuns ==
    /\ state.pending_queries # <<>>
    /\ \/ \E facts \in Findings(state) :
            Merged(SearchPatch(state, facts), "supervisor", "returned")
            /\ UNCHANGED <<cancelled_jobs, ghosts>>
       \/ Raised

search_and_analyze_node ==
    /\ Running("search_and_analyze")
    /\ (SearchSkipped \/ SearchRuns)

\* ----------------------------------------------------- nodes/verifier.py
\* seen, extended to n elements, with the elements a+1..b counted once more.
Presented(seen, n, a, b) ==
    [i \in 1..n |-> (IF i <= Len(seen) THEN seen[i] ELSE 0)
                    + (IF a < i /\ i <= b THEN 1 ELSE 0)]

\* What _extract_verification can read from the submit_verification call:
\* the delegate verified none, the first, the last or all of the facts it was
\* shown and listed the others as unverified.
VerifierSubmissions(new_facts) ==
    LET n == Len(new_facts)
    IN  {[verified_facts |-> SubSeq(new_facts, 1, v),
          unverified_claims |-> Texts(SubSeq(new_facts, v + 1, n))] : v \in {0, 1, n}}
        \cup
        {[verified_facts |-> SubSeq(new_facts, n, n),
          unverified_claims |-> Texts(SubSeq(new_facts, 1, n - 1))]}

\* The messages hold no submit_verification call, or one with empty lists.
NoSubmission == [verified_facts |-> <<>>, unverified_claims |-> <<>>]

\* What the forced submit-only round can yield: nothing, or every fact as
\* verified.
ForcedSubmissions(new_facts) ==
    {NoSubmission, [verified_facts |-> new_facts, unverified_claims |-> <<>>]}

\* The patch of the normal exit (verifier.py 216-255).
VerifierPatch(s, submitted) ==
    LET already_verified_count == s.facts_verified_count
        new_facts == SliceFrom(s.extracted_facts, already_verified_count)
        nothing == submitted.verified_facts = <<>> /\ submitted.unverified_claims = <<>>
    IN  [ verified_facts |-> submitted.verified_facts,
          unverified_claims |->
              IF nothing
              THEN SelectSeq(Texts(new_facts), LAMBDA text : text # NoText)
              ELSE submitted.unverified_claims,
          facts_verified_count |-> already_verified_count + Len(new_facts),
          current_phase_verified |-> TRUE,
          audit_log |-> <<"active_verification">> ]

\* A recursion-limit exit that leaves the cursor where it was.
VerifierRecursionKeepsCursor(s) ==
    [ verified_facts |-> <<>>,
      unverified_claims |->
          Texts(SliceFrom(s.extracted_facts, s.facts_verified_count)),
      current_phase_verified |-> TRUE,
      audit_log |-> <<"active_verification">> ]

\* The patch of the exit on GraphRecursionError in the main loop (149-176).
VerifierRecursionPatch(s) ==
    LET already_verified_count == s.facts_verified_count
        new_facts == SliceFrom(s.extracted_facts, already_verified_count)
    IN  [ verified_facts |-> <<>>,
          unverified_claims |-> Texts(new_facts),
          facts_verified_count |-> already_verified_count + Len(new_facts),
          current_phase_verified |-> TRUE,
          audit_log |-> <<"active_verification">> ]

\* A skip that also writes an audit entry.
VerifierSkipPatchAudited ==
    [ current_phase_verified |-> TRUE,
      audit_log |-> <<"active_verification">> ]

VerifierSkipPatch == [current_phase_verified |-> TRUE]

VerifierNewFacts == SliceFrom(state.extracted_facts, state.facts_verified_count)

VerifierShown ==
    /\ verifier_seen' = Presented(verifier_seen, Len(state.extracted_facts),
                                  state.facts_verified_count, Len(state.extracted_facts))
    /\ UNCHANGED <<cancelled_jobs, risk_seen, risk_seen_extracted>>

VerifierSkipped ==
    /\ VerifierNewFacts = <<>>
    /\ Merged(VerifierSkipPatch, "supervisor", "not_called")
    /\ UNCHANGED <<cancelled_jobs, ghosts>>

\* The main loop ended with a submit_verification call.
VerifierSubmits ==
    /\ VerifierNewFacts # <<>>
    /\ \E submitted \in VerifierSubmissions(VerifierNewFacts) :
            MergedAfter(VerifierPatch(state, submitted), "supervisor", "returned",
                        <<"submitted">>)
    /\ VerifierShown

\* The main loop ended without a submission and the forced submit-only
\* round returned (verifier.py 183-214).
VerifierForcedRound ==
    /\ VerifierNewFacts # <<>>
    /\ \E submitted \in ForcedSubmissions(VerifierNewFacts) :
            MergedAfter(VerifierPatch(state, submitted), "supervisor", "returned",
                        <<"no_submission",
                          IF submitted = NoSubmission THEN "no_submission"
                                                      ELSE "submitted">>)
    /\ VerifierShown

\* The main loop hit VERIFIER_RECURSION_LIMIT (verifier.py 149-176).
VerifierRecursionLimit ==
    /\ VerifierNewFacts # <<>>
    /\ MergedAfter(VerifierRecursionPatch(state), "supervisor", "returned",
                   <<"recursion_limit">>)
    /\ VerifierShown

\* Exceptions run() does not catch: any error but GraphRecursionError in the
\* main loop, and any error, GraphRecursionError included, in the forced
\* round, whose ainvoke is outside the try block.
VerifierFailures ==
    {<<"error">>, <<"no_submission", "recursion_limit">>, <<"no_submission", "error">>}

VerifierRaises ==
    /\ VerifierNewFacts # <<>>
    /\ \E ended \in VerifierFailures : RaisedAfter(ended)

verifier_node ==
    /\ Running("verifier")
    /\ \/ VerifierSkipped
       \/ VerifierSubmits
       \/ VerifierForcedRound
       \/ VerifierRecursionLimit
       \/ VerifierRaises

\* ------------------------------------------------ nodes/risk_assessor.py
\* The delta the node hands to its delegate (risk_assessor.py 26-38):
\* the verified facts beyond the cursor, else the fallback slice.
RiskFallback(s) ==
    /\ SliceFrom(s.verified_facts, s.risk_assessed_facts_count) = <<>>
    /\ s.facts_verified_count > s.risk_assessed_facts_count

RiskNewVerified(s) ==
    LET already_assessed == s.risk_assessed_facts_count
        new_verified == SliceFrom(s.verified_facts, already_assessed)
    IN  IF new_verified # <<>> THEN new_verified
        ELSE IF s.facts_verified_count > already_assessed
             THEN Slice(s.extracted_facts, already_assessed, s.facts_verified_count)
             ELSE <<>>

\* RiskAssessment results of the delegate: flag texts and a score given in
\* tenths (0 for 0.0, 10 for 1.0).  A result that is no RiskAssessment
\* counts as the default one: no flags, score 0.0.
RiskResults ==
    {[risk_flags |-> <<>>, overall_risk_score |-> 0],
     [risk_flags |-> <<"flag">>, overall_risk_score |-> 10]}

RiskPatch(s, output) ==
    [ risk_flags |-> output.risk_flags,
      overall_risk_score |-> output.overall_risk_score,
      risk_assessed_facts_count |->
          s.risk_assessed_facts_count + Len(RiskNewVerified(s)),
      current_phase_risk_assessed |-> TRUE,
      audit_log |-> <<"assess_risk">> ]

\* A skip that also writes an audit entry.
RiskSkipPatchAudited ==
    [ current_phase_risk_assessed |-> TRUE,
      audit_log |-> <<"assess_risk">> ]

RiskSkipPatch == [current_phase_risk_assessed |-> TRUE]

RiskSkipped ==
    /\ RiskNewVerified(state) = <<>>
    /\ Merged(RiskSkipPatch, "supervisor", "not_called")
    /\ UNCHANGED <<cancelled_jobs, ghosts>>

RiskAssesses ==
    /\ RiskNewVerified(state) # <<>>
    /\ \E output \in RiskResults :
            Merged(RiskPatch(state, output), "supervisor", "returned")
    /\ IF RiskFallback(state)
       THEN /\ risk_seen_extracted' =
                    risk_seen_extracted \cup Range(RiskNewVerified(state))
            /\ UNCHANGED risk_seen
       ELSE /\ risk_seen' = Presented(risk_seen, Len(state.verified_facts),
                                      state.risk_assessed_facts_count,
                                      Len(state.verified_facts))
            /\ UNCHANGED risk_seen_extracted
    /\ UNCHANGED <<cancelled_jobs, verifier_seen>>

RiskRaises ==
    /\ RiskNewVerified(state) # <<>>
    /\ Raised

risk_assessor_node ==
    /\ Running("risk_assessor")
    /\ (RiskSkipped \/ RiskAssesses \/ RiskRaises)

\* ------------------------------------------------ nodes/graph_builder.py
GraphBuilderPatch ==
    [ phase_complete |-> TRUE,
      audit_log |-> <<"populate_graph">> ]

graph_builder_node ==
    /\ Running("graph_builder")
    /\ Merged(GraphBuilderPatch, "supervisor", "not_called")
    /\ UNCHANGED <<cancelled_jobs, ghosts>>

\* One call of graph_builder_node followed write by write.  An entity and a
\* relationship are the dicts of a submit_findings call; a missing key reads
\* as the empty text.
RecognizedTypes == {"person", "organization", "fund", "location", "document"}

\* str.lower() and str.upper() on the texts the inputs use.
Lower(text) == IF text = "Person" THEN "person" ELSE text

Upper(text) ==
    CASE text = "works_at" -> "WORKS_AT"
      [] text = "knows" -> "KNOWS"
      [] OTHER -> text

EntityInputs ==
    {[type |-> type, name |-> name] :
        type \in {"Person", "vessel"}, name \in {"", "a", "b"}}

RelationshipInputs ==
    {[source_entity |-> "a", target_entity |-> "b", relationship_type |-> "works_at"],
     [source_entity |-> "a", target_entity |-> "b", relationship_type |-> "knows"],
     [source_entity |-> "a", target_entity |-> "", relationship_type |-> "works_at"]}

\* The call also carries what it works on: the run's research_id and its
\* state's two graph lists, and the sink's nodes and edges; `calls` counts
\* the invocations so far.
BuilderIdle ==
    [ status |-> "idle", entities |-> <<>>, relationships |-> <<>>, at |-> 0,
      attempts |-> <<>>, nodes_created |-> <<>>, rels_created |-> <<>>,
      patch |-> EmptyPatch, research_id |-> "A", calls |-> 0,
      graph_nodes_created |-> <<>>, graph_relationships_created |-> <<>>,
      sink_nodes |-> {}, sink_edges |-> {} ]

\* The calls on entry to the first loop; `at` counts through the entities
\* and then the relationships, `attempts` keeps each execute_write call made
\* (the position of its item and whether it returned).
BuilderCalls ==
    {[BuilderIdle EXCEPT !.status = "running", !.entities = entities,
                         !.relationships = relationships, !.at = 1,
                         !.calls = 1] :
        entities \in UNION {[1..k -> EntityInputs] : k \in 0..MaxEntities},
        relationships \in
            UNION {[1..k -> RelationshipInputs] : k \in 0..MaxRelationships}}

NodeLabel(entity) == [etype |-> Lower(entity.type), name |-> entity.name]

RelLabel(rel) ==
    [from_name |-> rel.source_entity, rel_type |-> Upper(rel.relationship_type),
     to_name |-> rel.target_entity]

\* queries.py 3-37 with graph_builder.py 65-77: MERGE finds or creates the
\* node of that label and name, and SET += replaces its research_ids
\* property by the list of the writing run alone.  `upserted_by` is not a
\* property of the node: it remembers every run that wrote it.
merge_node(nodes, label, research_id) ==
    LET found == {n \in nodes : n.label = label}
    IN  (nodes \ found) \cup
            {[ label |-> label, research_ids |-> <<research_id>>,
               upserted_by |-> UNION {n.upserted_by : n \in found}
                                  \cup {research_id} ]}

\* queries.py 49-72: MATCH binds every pair of nodes that carry the two
\* names, whatever their labels, and MERGE adds an edge for each pair; with
\* no such pair the query writes nothing and returns no row.  A type outside
\* the typed queries is stored as ASSOCIATED_WITH with the type as subtype.
merge_edge(nodes, edges, rel) ==
    LET typed == rel.rel_type \in
                     {"WORKS_AT", "OWNS", "BOARD_MEMBER_OF", "ASSOCIATED_WITH",
                      "LITIGATED", "MANAGES", "INVESTED_IN", "LOCATED_IN",
                      "MENTIONED_IN"}
    IN  edges \cup
            {[ from |-> a.label, to |-> b.label,
               type |-> IF typed THEN rel.rel_type ELSE "ASSOCIATED_WITH",
               rel_subtype |-> IF typed THEN "" ELSE rel.rel_type ] :
                 a \in {n \in nodes : n.label.name = rel.from_name},
                 b \in {n \in nodes : n.label.name = rel.to_name}}

\* A builder whose node write is outside any try block.
EntityWrittenUnguarded(b, ok) ==
    IF ok
    THEN [b EXCEPT !.attempts = Append(@, [at |-> b.at, ok |-> ok]),
                   !.nodes_created = Append(@, NodeLabel(b.entities[b.at])),
                   !.sink_nodes = merge_node(@, NodeLabel(b.entities[b.at]),
                                             b.research_id),
                   !.at = @ + 1]
    ELSE [b EXCEPT !.attempts = Append(@, [at |-> b.at, ok |-> ok]),
                   !.status = "raised"]

\* graph_builder.py 73-77: the write of the entity at b.at returned (ok) or
\* raised; the loop goes on either way.
EntityWritten(b, ok) ==
    [b EXCEPT !.attempts = Append(@, [at |-> b.at, ok |-> ok]),
              !.nodes_created =
                  IF ok THEN Append(@, NodeLabel(b.entities[b.at])) ELSE @,
              !.sink_nodes =
                  IF ok THEN merge_node(@, NodeLabel(b.entities[b.at]),
                                        b.research_id)
                  ELSE @,
              !.at = @ + 1]

\* graph_builder.py 96-120: the same for the relationship at b.at, through
\* the typed query or the fallback one.
RelationshipWritten(b, ok) ==
    LET rel == b.relationships[b.at - Len(b.entities)]
    IN  [b EXCEPT !.attempts = Append(@, [at |-> b.at, ok |-> ok]),
                  !.rels_created = IF ok THEN Append(@, RelLabel(rel)) ELSE @,
                  !.sink_edges =
                      IF ok THEN merge_edge(b.sink_nodes, @, RelLabel(rel))
                      ELSE @,
                  !.at = @ + 1]

\* One iteration of the loop over the entities.
BuilderEntity ==
    /\ builder.status = "running"
    /\ builder.at <= Len(builder.entities)
    /\ LET entity == builder.entities[builder.at]
       IN  IF Lower(entity.type) \notin RecognizedTypes \/ entity.name = ""
           THEN builder' = [builder EXCEPT !.at = @ + 1]
           ELSE \E ok \in BOOLEAN : builder' = EntityWritten(builder, ok)
    /\ UNCHANGED <<graph_vars, router, stream, extraction>>

\* One iteration of the loop over the relationships.
BuilderRelationship ==
    /\ builder.status = "running"
    /\ builder.at > Len(builder.entities)
    /\ builder.at <= Len(builder.entities) + Len(builder.relationships)
    /\ LET rel == builder.relationships[builder.at - Len(builder.entities)]
       IN  IF rel.source_entity = "" \/ rel.target_entity = ""
           THEN builder' = [builder EXCEPT !.at = @ + 1]
           ELSE \E ok \in BOOLEAN : builder' = RelationshipWritten(builder, ok)
    /\ UNCHANGED <<graph_vars, router, stream, extraction>>

\* Both loops are over: the node returns its patch, and the reducer adds
\* the patch's two lists to the state's.
BuilderReturns ==
    /\ builder.status = "running"
    /\ builder.at > Len(builder.entities) + Len(builder.relationships)
    /\ builder' =
           [builder EXCEPT
               !.status = "returned",
               !.patch = [graph_nodes_created |-> builder.nodes_created,
                          graph_relationships_created |-> builder.rels_created]
                             @@ GraphBuilderPatch,
               !.graph_nodes_created = merge_lists(@, builder.nodes_created),
               !.graph_relationships_created =
                   merge_lists(@, builder.rels_created)]
    /\ UNCHANGED <<graph_vars, router, stream, extraction>>

\* The next invocation on the same sink: a later phase of the same run, or
\* the first phase of run "B" on a state of its own.  Either reads the
\* whole entities and relationships lists of its state (graph_builder.py
\* 44-46); the lists are the ones of the call before, as when the later
\* phase found nothing new or the other run found the same entities.
BuilderInvoked ==
    /\ builder.status = "returned"
    /\ builder.calls < MaxInvocations
    /\ \E research_id \in {builder.research_id, "B"} :
          builder' =
              [builder EXCEPT
                  !.status = "running", !.at = 1, !.attempts = <<>>,
                  !.nodes_created = <<>>, !.rels_created = <<>>,
                  !.patch = EmptyPatch, !.calls = @ + 1,
                  !.research_id = research_id,
                  !.graph_nodes_created =
                      IF research_id = builder.research_id THEN @ ELSE <<>>,
                  !.graph_relationships_created =
                      IF research_id = builder.research_id THEN @ ELSE <<>>]
    /\ UNCHANGED <<graph_vars, router, stream, extraction>>

\* queries.py 92-100 (graph_service.py 26-29): the nodes whose research_ids
\* property holds the run's id.
query_subgraph(nodes, research_id) ==
    {n.label : n \in {m \in nodes : research_id \in Range(m.research_ids)}}

\* -------------------------------------------------- nodes/synthesizer.py
\* The report is the delegate's text, which may be empty.
Reports == {"report", ""}

SynthesizerPatch(report) ==
    [ final_report |-> report,
      audit_log |-> <<"generate_report">> ]

synthesizer_node ==
    /\ Running("synthesizer")
    /\ \/ \E report \in Reports :
            Merged(SynthesizerPatch(report), "supervisor", "returned")
            /\ UNCHANGED <<cancelled_jobs, ghosts>>
       \/ Raised

\* --------------------------------------------- nodes/phase_strategist.py
\* PhaseStrategyDecision results of the delegate; the phases it proposes
\* carry its own numbering 1..k.
StrategistResults ==
    {[action |-> "synthesize", phases_to_add |-> <<>>]}
        \cup {[action |-> "add_phases",
                phases_to_add |-> [n \in 1..k |-> Phase(n, Ids(n, n + 1))]]
                   : k \in 0..MaxAddPhases}

\* What router.invoke hands the strategist: a PhaseStrategyDecision, or a
\* value of another type.
StrategistOutputs ==
    {[is_decision |-> TRUE, decision |-> d] : d \in StrategistResults}
        \cup {[is_decision |-> FALSE]}

\* phase_strategist.py 100-102: the decision, synthesize when the result is
\* none.
strategy_decision(result) ==
    IF result.is_decision THEN result.decision
    ELSE [action |-> "synthesize", phases_to_add |-> <<>>]

\* A strategist that appends the phases under the delegate's own numbers.
PhaseStrategistPatchOwnNumbers(s, decision) ==
    LET plan == s.research_plan \o decision.phases_to_add
        updates == [audit_log |-> <<"phase_decision">>]
    IN  IF decision.action = "add_phases" /\ decision.phases_to_add # <<>>
        THEN [ research_plan |-> plan,
               max_phases |-> Len(plan),
               current_phase |-> Len(s.research_plan) + 1,
               phase_complete |-> FALSE,
               current_phase_searched |-> FALSE,
               current_phase_verified |-> FALSE,
               current_phase_risk_assessed |-> FALSE,
               dynamic_phases |-> FALSE,
               pending_queries |-> decision.phases_to_add[1].queries ]
             @@ updates
        ELSE updates

\* A strategist that leaves dynamic mode on every decision.
PhaseStrategistPatchLeavesMode(s, decision) ==
    [dynamic_phases |-> FALSE, audit_log |-> <<"phase_decision">>]

PhaseStrategistPatch(s, decision) ==
    LET base_num == Len(s.research_plan) + 1
        new_phases == [i \in 1..Len(decision.phases_to_add) |->
                          Phase(base_num + i - 1, decision.phases_to_add[i].queries)]
        plan == s.research_plan \o new_phases
        updates == [audit_log |-> <<"phase_decision">>]
    IN  IF decision.action = "add_phases" /\ decision.phases_to_add # <<>>
        THEN [ research_plan |-> plan,
               max_phases |-> Len(plan),
               current_phase |-> base_num,
               phase_complete |-> FALSE,
               current_phase_searched |-> FALSE,
               current_phase_verified |-> FALSE,
               current_phase_risk_assessed |-> FALSE,
               dynamic_phases |-> FALSE,
               pending_queries |-> new_phases[1].queries ] @@ updates
        ELSE updates

phase_strategist_node ==
    /\ Running("phase_strategist")
    /\ \/ \E result \in StrategistOutputs :
            Merged(PhaseStrategistPatch(state, strategy_decision(result)),
                   "supervisor", "returned")
            /\ UNCHANGED <<cancelled_jobs, ghosts>>
       \/ Raised

\* ------------------------------------------------ models/model_router.py
\* What target.ainvoke does for one model of the chain: it raises, returns
\* an instance of the requested schema, or returns another value (a plain
\* message, or nothing parsed).
ModelOutcomes == {"raises", "schema", "other"}

\* all_models for a task: the primary, then the fallback chain in order.
Chains(outcomes) == UNION {[1..n -> outcomes] : n \in 1..MaxChain}

\* No invoke call is under way.
RouterIdle ==
    [ status |-> "idle", task |-> NULL, structured_output |-> FALSE,
      all_models |-> <<>>, at |-> 0, attempts |-> <<>>, last_error |-> 0,
      result |-> NULL, error |-> NULL ]

\* An invoke call on entry to its loop.  Without structured_output no
\* schema is requested, so no model returns an instance of one.
RouterCall(task, structured_output, all_models) ==
    [ status |-> "running", task |-> task,
      structured_output |-> structured_output,
      all_models |-> all_models, at |-> 1,
      attempts |-> [i \in 1..Len(all_models) |-> 0], last_error |-> 0,
      result |-> NULL, error |-> NULL ]

RouterCalls ==
    {RouterCall("supervisor", TRUE, chain) : chain \in Chains(ModelOutcomes)}
        \cup {RouterCall("synthesizer", FALSE, chain) :
                  chain \in Chains(ModelOutcomes \ {"schema"})}

\* A loop that passes over the model after the one that failed.
NextModelSkipsOne(r) == r.at + 2

\* `continue`: the loop moves to the next model of all_models.
NextModel(r) == r.at + 1

\* The RuntimeError raised when the loop ends: it names the task and the
\* last error, the one of the model whose position is last_error.
RouterError(r) == [task |-> r.task, cause |-> r.last_error]

\* One iteration of the loop over all_models.
RouterAttempt ==
    /\ router.status = "running"
    /\ router.at <= Len(router.all_models)
    /\ LET outcome == router.all_models[router.at]
           tried == [router.attempts EXCEPT ![router.at] = @ + 1]
       IN  router' =
               IF outcome = "raises"
               THEN [router EXCEPT !.attempts = tried,
                                   !.last_error = router.at,
                                   !.at = NextModel(router)]
               ELSE [router EXCEPT !.attempts = tried,
                                   !.status = "returned",
                                   !.result = [model |-> router.at,
                                               value |-> outcome]]
    /\ UNCHANGED <<graph_vars, builder, stream, extraction>>

\* The loop is over and no model returned.
RouterExhausted ==
    /\ router.status = "running"
    /\ router.at > Len(router.all_models)
    /\ router' = [router EXCEPT !.status = "raised", !.error = RouterError(router)]
    /\ UNCHANGED <<graph_vars, builder, stream, extraction>>

\* --------------------------------------------------------------- driver
\* The superstep counter reached the ceiling before the graph reached END.
GraphRecursionError ==
    /\ pc \notin Terminal
    /\ supersteps >= recursion_limit
    /\ pc' = "failed"
    /\ UNCHANGED <<state, supersteps, recursion_limit, cancelled_jobs,
                   delegate, rounds, ghosts, aside>>

\* DELETE /research/{id}/cancel for a job that is queued or running (the
\* handler marks the job cancelled, so a second request is refused).  The
\* run is added to the cancellation set.
CancelSignalled ==
    /\ cancelled_jobs' = cancelled_jobs \cup {RunId}
    /\ UNCHANGED pc

\* The run has a live task in _inline_tasks: the handler also cancels it,
\* which ends the run at its current await and clears the set in the task's
\* finally block.
CancelInlineTask ==
    /\ cancelled_jobs' = {}
    /\ pc' = "cancelled"

cancel_research ==
    /\ pc \notin Terminal
    /\ RunId \notin cancelled_jobs
    /\ (CancelSignalled \/ CancelInlineTask)
    /\ UNCHANGED <<state, supersteps, recursion_limit, delegate, rounds, ghosts,
                   aside>>

\* ------------------- _extract_findings, _extract_verification: messages
\* The tool calls a delegate's messages carry: submissions of findings and
\* of verification results whose lists hold the item n, one of each with
\* every key and one with a single key, and a web_scrape call.
ToolCalls ==
    {[name |-> "submit_findings",
      args |-> [facts |-> <<1>>, entities |-> <<1>>, relationships |-> <<1>>]],
     [name |-> "submit_findings", args |-> [facts |-> <<2>>]],
     [name |-> "submit_verification",
      args |-> [verified_facts |-> <<1>>, unverified_claims |-> <<1>>,
                contradictions |-> <<1>>]],
     [name |-> "submit_verification", args |-> [verified_facts |-> <<2>>]],
     [name |-> "web_scrape", args |-> [url |-> "url"]]}

\* Message histories: each message has a free text, which may tell of
\* findings, and no tool call or one.
Histories ==
    LET Messages == {[content |-> content, tool_calls |-> tool_calls] :
                        content \in {"", "narrative"},
                        tool_calls \in {<<>>} \cup {<<tc>> : tc \in ToolCalls}}
    IN  UNION {[1..n -> Messages] : n \in 0..MaxMessages}

\* The two nested loops over the messages and their tool calls: the calls
\* in the order the loops visit them.
RECURSIVE tool_calls(_)
tool_calls(messages) ==
    IF messages = <<>> THEN <<>>
    ELSE Head(messages).tool_calls \o tool_calls(Tail(messages))

\* An extraction that stops at the first submit_findings call.
extract_findings_first(messages) ==
    LET calls == tool_calls(messages)
        arg(args, key) == IF key \in DOMAIN args THEN args[key] ELSE <<>>
        submitted == SelectSeq(calls, LAMBDA tc : tc.name = "submit_findings")
        scraped == SelectSeq(calls, LAMBDA tc : tc.name = "web_scrape")
    IN  [ facts |-> IF submitted = <<>> THEN <<>>
                    ELSE arg(submitted[1].args, "facts"),
          entities |-> IF submitted = <<>> THEN <<>>
                       ELSE arg(submitted[1].args, "entities"),
          relationships |-> IF submitted = <<>> THEN <<>>
                            ELSE arg(submitted[1].args, "relationships"),
          urls_visited |-> {tc.args.url : tc \in Range(scraped)} ]

extract_findings(messages) ==
    LET arg(args, key) == IF key \in DOMAIN args THEN args[key] ELSE <<>>
        RECURSIVE scan(_, _)
        scan(calls, found) ==
            IF calls = <<>> THEN found
            ELSE LET tc == Head(calls)
                 IN  scan(Tail(calls),
                          IF tc.name = "submit_findings"
                          THEN [found EXCEPT
                                   !.facts = arg(tc.args, "facts"),
                                   !.entities = arg(tc.args, "entities"),
                                   !.relationships = arg(tc.args, "relationships")]
                          ELSE IF tc.name = "web_scrape" /\ tc.args.url # ""
                          THEN [found EXCEPT !.urls_visited = @ \cup {tc.args.url}]
                          ELSE found)
    IN  scan(tool_calls(messages),
             [facts |-> <<>>, entities |-> <<>>, relationships |-> <<>>,
              urls_visited |-> {}])

extract_verification(messages) ==
    LET arg(args, key) == IF key \in DOMAIN args THEN args[key] ELSE <<>>
        RECURSIVE scan(_, _)
        scan(calls, found) ==
            IF calls = <<>> THEN found
            ELSE LET tc == Head(calls)
                 IN  scan(Tail(calls),
                          IF tc.name = "submit_verification"
                          THEN [verified_facts |-> arg(tc.args, "verified_facts"),
                                unverified_claims |-> arg(tc.args, "unverified_claims"),
                                contradictions |-> arg(tc.args, "contradictions")]
                          ELSE found)
    IN  scan(tool_calls(messages),
             [verified_facts |-> <<>>, unverified_claims |-> <<>>,
              contradictions |-> <<>>])

\* No history is followed.
ExtractionIdle == [by |-> "none", messages |-> <<>>, result |-> EmptyPatch]

\* A node reads the messages its delegate returned: search_and_analyze
\* through _extract_findings, the verifier through _extract_verification.
Extracts ==
    /\ extraction.by = "delegate"
    /\ \/ extraction' =
              [extraction EXCEPT !.by = "search_and_analyze",
                                 !.result = extract_findings(extraction.messages)]
       \/ extraction' =
              [extraction EXCEPT !.by = "verifier",
                                 !.result = extract_verification(extraction.messages)]
    /\ UNCHANGED <<graph_vars, router, builder, stream>>

\* ------------------------------------ research.py: the job and its stream
\* No job is followed: `job` is the status in _jobs, `registered` tells
\* whether _event_queues holds the job's queue, `queue` is what the queue
\* holds (the run keeps its own reference to it), and each consumer has
\* its place in event_generator and the statuses of the done events it got.
\* `redis_up` tells whether get_redis() returns a client and `redis_job` is
\* the status under the job's key; `cancelled` is the job's membership of
\* _cancelled_jobs; `task` is where the run's asyncio task stands and
\* `task_cancel` whether task.cancel() has been called on it; `canceller` is
\* the place of a cancel_research call, the status it read from Redis and
\* the in-memory status at its arrival.
StreamIdle ==
    [ job |-> "none", registered |-> FALSE, queue |-> <<>>, emitted |-> 0,
      consumers |-> [c \in 1..MaxConsumers |-> [at |-> "idle", dones |-> <<>>]],
      redis_up |-> FALSE, redis_job |-> "none", cancelled |-> FALSE,
      task |-> "none", task_cancel |-> FALSE,
      canceller |-> [at |-> "idle", redis_job |-> "none", arrived |-> "none"] ]

TerminalStatuses == {"completed", "failed", "cancelled"}

\* _run_research_inline starts: the first thing the task does.
RunStarts ==
    /\ stream.task = "pending"
    /\ ~stream.task_cancel
    /\ stream' = [stream EXCEPT !.job = "running", !.task = "running"]
    /\ UNCHANGED <<graph_vars, router, builder, extraction>>

\* The run forwards one graph event to its queue (research.py 356-359).
RunEmits ==
    /\ stream.task = "running"
    /\ ~stream.task_cancel
    /\ stream.emitted < MaxEvents
    /\ stream' = [stream EXCEPT !.queue = Append(@, "event"), !.emitted = @ + 1]
    /\ UNCHANGED <<graph_vars, router, builder, extraction>>

\* The run ends, by itself or through cancel_research (research.py
\* 455-499).  A failure or a CancelledError records its status in _jobs
\* only; completion records it in _jobs and then awaits the write to Redis,
\* where a cancellation can still reach the task.  The finally block puts
\* the sentinel and clears the job from _cancelled_jobs.
RunEnds ==
    /\ stream.task \in {"running", "persisting"}
    /\ LET finally(s) == [s EXCEPT !.queue = Append(@, NULL), !.task = "done",
                                   !.cancelled = FALSE]
       IN  IF stream.task_cancel
           THEN stream' = finally([stream EXCEPT !.job = "cancelled"])
           ELSE IF stream.task = "persisting"
           THEN stream' = finally([stream EXCEPT !.redis_job = "completed"])
           ELSE \/ \E status \in {"failed", "cancelled"} :
                      stream' = finally([stream EXCEPT !.job = status])
                \/ stream' =
                      IF stream.redis_up
                      THEN [stream EXCEPT !.job = "completed",
                                          !.task = "persisting"]
                      ELSE finally([stream EXCEPT !.job = "completed"])
    /\ UNCHANGED <<graph_vars, router, builder, extraction>>

\* One DELETE /research/{id}/cancel (research.py 571-605), from await to
\* await.  Without Redis nothing in the handler suspends; with Redis it
\* suspends in _redis_get_job and in _redis_set_job.  The status it tests
\* is that of `redis_job or mem_job`.
CancelHandler ==
    /\ stream.canceller.at \in {"idle", "read", "signalled"}
    /\ LET c == stream.canceller
           status == IF stream.redis_up THEN c.redis_job ELSE stream.job
           signalled ==
               [stream EXCEPT !.cancelled = TRUE,
                              !.task_cancel = stream.task # "done",
                              !.canceller.at = "signalled"]
           marked(s) ==
               [s EXCEPT !.redis_job = IF s.redis_up THEN "cancelled" ELSE @,
                         !.job = "cancelled", !.canceller.at = "done"]
           tested(s) ==
               IF status \in TerminalStatuses
               THEN [s EXCEPT !.canceller.at = "rejected"]
               ELSE IF s.redis_up THEN signalled ELSE marked(signalled)
       IN  stream' =
               CASE c.at = "idle" /\ stream.redis_up ->
                        [stream EXCEPT !.canceller =
                            [at |-> "read", redis_job |-> stream.redis_job,
                             arrived |-> stream.job]]
                 [] c.at = "idle" /\ ~stream.redis_up ->
                        tested([stream EXCEPT !.canceller.arrived = stream.job])
                 [] c.at = "read" -> tested(stream)
                 [] c.at = "signalled" -> marked(stream)
    /\ UNCHANGED <<graph_vars, router, builder, extraction>>

\* A client opens GET /research/{id}/stream (research.py 617-627); it has
\* the id from start_research's response, so the task has started.
StreamConnects(c) ==
    /\ stream.job \notin {"none", "queued"}
    /\ stream.consumers[c].at = "idle"
    /\ stream' =
           IF stream.registered
           THEN [stream EXCEPT !.consumers[c].at = "listening"]
           ELSE [stream EXCEPT !.consumers[c].at = "closed",
                               !.consumers[c].dones = Append(@, stream.job)]
    /\ UNCHANGED <<graph_vars, router, builder, extraction>>

\* queue.get() returns in one listening consumer (research.py 630-645): an
\* event is passed on, the sentinel ends the stream with a done event and
\* the finally block drops the queue from _event_queues.
StreamReceives(c) ==
    /\ stream.consumers[c].at = "listening"
    /\ stream.queue # <<>>
    /\ stream' =
           IF Head(stream.queue) = NULL
           THEN [stream EXCEPT !.queue = Tail(@),
                               !.registered = FALSE,
                               !.consumers[c].at = "closed",
                               !.consumers[c].dones = Append(@, stream.job)]
           ELSE [stream EXCEPT !.queue = Tail(@)]
    /\ UNCHANGED <<graph_vars, router, builder, extraction>>

\* A listening client goes away: the generator is closed and its finally
\* block drops the queue from _event_queues.
StreamDisconnects(c) ==
    /\ stream.consumers[c].at = "listening"
    /\ stream' = [stream EXCEPT !.registered = FALSE,
                                !.consumers[c].at = "closed"]
    /\ UNCHANGED <<graph_vars, router, builder, extraction>>

\* _jobs[research_id] as _run_research_inline leaves it when the run is at
\* `at` with the graph state s: the counts and the audit log are written on
\* completion only (research.py 455-464); the two except blocks write the
\* status, and the error text (485-493).
job_record(at, s) ==
    CASE at = "END" ->
             [ status |-> "completed",
               final_report |-> s.final_report,
               facts_count |-> Len(s.verified_facts),
               risk_flags_count |-> Len(s.risk_flags),
               audit_log |-> s.audit_log ]
      [] at = "failed" -> [status |-> "failed", error |-> "error"]
      [] at = "cancelled" -> [status |-> "cancelled"]
      [] OTHER -> [status |-> "running"]

\* GET /research/{id}: the ResearchResult built from the job record, with
\* the defaults of job.get for the keys it lacks.
get_research(job) ==
    LET get(key, default) == IF key \in DOMAIN job THEN job[key] ELSE default
    IN  [ status |-> job.status,
          final_report |-> get("final_report", NULL),
          facts_count |-> get("facts_count", 0),
          risk_flags_count |-> get("risk_flags_count", 0),
          audit_log |-> get("audit_log", [n |-> 0, last |-> NULL]) ]

\* The patches the node `node` can return in the state s.
StepPatches(node, s) ==
    LET new_facts == SliceFrom(s.extracted_facts, s.facts_verified_count)
    IN  CASE node = "supervisor" ->
                 {CancelledPatch(s)}
                     \cup {RoutePatch(s, result) : result \in SupervisorResults}
          [] node = "planner" ->
                 {PlannerPatch(s, plan_phases(result)) : result \in PlannerOutputs}
          [] node = "query_refiner" ->
                 {QueryRefinerPatch(s, queries) : queries \in RefinerResults}
          [] node = "search_and_analyze" ->
                 IF s.pending_queries = <<>> THEN {EmptyPatch}
                 ELSE {SearchPatch(s, facts) : facts \in Findings(s)}
          [] node = "verifier" ->
                 IF new_facts = <<>> THEN {VerifierSkipPatch}
                 ELSE {VerifierRecursionPatch(s)}
                          \cup {VerifierPatch(s, submitted) :
                                   submitted \in VerifierSubmissions(new_facts)
                                       \cup ForcedSubmissions(new_facts)}
          [] node = "risk_assessor" ->
                 IF RiskNewVerified(s) = <<>> THEN {RiskSkipPatch}
                 ELSE {RiskPatch(s, output) : output \in RiskResults}
          [] node = "graph_builder" -> {GraphBuilderPatch}
          [] node = "synthesizer" ->
                 {SynthesizerPatch(report) : report \in Reports}
          [] OTHER -> {}

\* No call is followed on its own.
IdleBut(unit) ==
    /\ unit # "router" => router = RouterIdle
    /\ unit # "builder" => builder = BuilderIdle
    /\ unit # "stream" => stream = StreamIdle
    /\ unit # "extraction" => extraction = ExtractionIdle

\* research.py 295-305: a request without max_depth starts in dynamic mode
\* with one phase.
StartStates(modes) ==
    {InitialState(max_phases, FALSE) : max_phases \in 1..MaxDepth}
        \cup {InitialState(1, dynamic) : dynamic \in modes}

Start(limit, modes) ==
    /\ state \in StartStates(modes)
    /\ pc = "supervisor"
    /\ supersteps = 0
    /\ recursion_limit = limit
    /\ cancelled_jobs = {}
    /\ delegate = "not_called"
    /\ rounds = <<>>
    /\ verifier_seen = <<>>
    /\ risk_seen = <<>>
    /\ risk_seen_extracted = {}

Init == Start(MaxSupersteps, {FALSE}) /\ IdleBut("graph")

Next ==
    \/ supervisor_node
    \/ planner_node
    \/ query_refiner_node
    \/ search_and_analyze_node
    \/ verifier_node
    \/ risk_assessor_node
    \/ graph_builder_node
    \/ synthesizer_node
    \/ GraphRecursionError
    \/ cancel_research

Spec == Init /\ [][Next]_vars

\* The run under a routing delegate that follows the decision table.
InitRules == Start(MaxRuleSupersteps, {FALSE}) /\ IdleBut("graph")

NextRules ==
    \/ supervisor_follows_rules
    \/ planner_node
    \/ query_refiner_node
    \/ search_and_analyze_node
    \/ verifier_node
    \/ risk_assessor_node
    \/ graph_builder_node
    \/ synthesizer_node
    \/ GraphRecursionError
    \/ cancel_research

SpecRules == InitRules /\ [][NextRules]_vars

\* The run of the dynamic-phases variant of the graph.
InitDynamic == Start(MaxDynamicSupersteps, BOOLEAN) /\ IdleBut("graph")

NextDynamic ==
    \/ supervisor_node_dynamic
    \/ planner_node
    \/ query_refiner_node
    \/ search_and_analyze_node
    \/ verifier_node
    \/ risk_assessor_node
    \/ graph_builder_node
    \/ phase_strategist_node
    \/ synthesizer_node
    \/ GraphRecursionError
    \/ cancel_research

SpecDynamic == InitDynamic /\ [][NextDynamic]_vars

\* ================================================================ claims

\* C1: a supervisor tick that begins with the run in the cancellation set
\* returns next_action FINISH without calling the routing delegate, removes
\* the run from the set and appends exactly one audit entry, "cancelled";
\* the graph ends at that tick and no step runs after it.
C1_CancelledTickFinishes ==
    [][ /\ (pc = "supervisor" /\ RunId \in cancelled_jobs
               /\ supersteps' = supersteps + 1)
            => /\ state'.next_action = "FINISH"
               /\ delegate' = "not_called"
               /\ RunId \notin cancelled_jobs'
               /\ state'.audit_log.n = state.audit_log.n + 1
               /\ state'.audit_log.last = "cancelled"
               /\ pc' = "END"
        /\ (pc = "END" => pc' = "END" /\ supersteps' = supersteps) ]_vars

\* A run that a cancellation tick ended after at least one step had run.
C1_Witness ==
    /\ pc = "END"
    /\ state.audit_log.last = "cancelled"
    /\ state.audit_log.n >= 3
    /\ state.next_action = "FINISH"
    /\ delegate = "not_called"
    /\ RunId \notin cancelled_jobs

\* C2: when the supervisor answers with the first matching rule, a tick that
\* begins with final_report set emits FINISH (whether by rule or by the
\* cancellation check), unless the tick raises.
C2_ReportThenFinish ==
    [][ (pc = "supervisor" /\ has_report(state) /\ pc' \notin {pc, "failed", "cancelled"})
            => state'.next_action = "FINISH" ]_vars

\* C3: when the supervisor follows the table, every state a tick can begin
\* in satisfies at least one of the ten rule conditions.
C3_RuleTableTotal ==
    pc = "supervisor" => \E i \in Rules : Rule(i, state)

\* C4: a tick whose routing delegate call raised still returns a patch with
\* next_action FINISH and ends the graph normally; the run is not failed.
C4_DelegateFailureFinishes ==
    [][ (pc = "supervisor" /\ delegate' = "raised" /\ pc' # pc)
            => (state'.next_action = "FINISH" /\ pc' = "END") ]_vars

\* C5: each delta cursor is bounded by the list it indexes.
C5_CursorsBounded ==
    /\ state.facts_verified_count <= Len(state.extracted_facts)
    /\ state.risk_assessed_facts_count <= Len(state.verified_facts)

\* C6: every element of verified_facts is shown to the risk delegate in
\* exactly one invocation: never twice, never left out by an invocation that
\* ran with the element in the list; and the invocation shows no extracted
\* fact whose verified form an earlier invocation has shown.
C6_RiskPresentedExactlyOnce ==
    [][ /\ \A i \in 1..Len(risk_seen') : risk_seen'[i] <= 1
        /\ (pc = "risk_assessor" /\ pc' = "supervisor")
            => \A i \in 1..Len(state.verified_facts) :
                   i <= Len(risk_seen') /\ risk_seen'[i] = 1
        /\ (risk_seen_extracted' \ risk_seen_extracted)
               \cap {state.verified_facts[i] :
                         i \in {j \in 1..Len(risk_seen) : risk_seen[j] >= 1}} = {} ]_vars

\* C7: no element of extracted_facts is shown to the verifier in more than
\* one invocation; facts_verified_count never decreases; and an invocation
\* with a non-empty delta that returns leaves the cursor at the length
\* extracted_facts had on entry, having advanced by the number of facts shown.
C7_VerifierCursor ==
    [][ /\ \A i \in 1..Len(verifier_seen') : verifier_seen'[i] <= 1
        /\ state'.facts_verified_count >= state.facts_verified_count
        /\ (pc = "verifier" /\ pc' = "supervisor"
               /\ state.facts_verified_count < Len(state.extracted_facts))
            => /\ state'.facts_verified_count = Len(state.extracted_facts)
               /\ state'.facts_verified_count - state.facts_verified_count
                     = Cardinality({i \in 1..Len(verifier_seen') :
                                       i > Len(verifier_seen)
                                       \/ verifier_seen'[i] # verifier_seen[i]}) ]_vars

\* The verifier has returned from its second invocation with a non-empty
\* delta: it verified one of the first five facts and all of the next five,
\* each fact was shown once, and the cursor is at ten.
C7_Witness ==
    /\ pc = "supervisor"
    /\ state.next_action = "verifier"
    /\ Len(verifier_seen) = 2 * MIN_FACTS_FOR_VERIFIER
    /\ state.facts_verified_count = 2 * MIN_FACTS_FOR_VERIFIER
    /\ \A i \in 1..Len(verifier_seen) : verifier_seen[i] = 1
    /\ Len(state.verified_facts) = MIN_FACTS_FOR_VERIFIER + 1

\* C8: every transition that increases current_phase leaves the three
\* per-phase flags and phase_complete false, and a supervisor tick that
\* increases it increases it by exactly 1.
C8_AdvanceResetsFlags ==
    [][ state'.current_phase > state.current_phase
            => /\ ~state'.current_phase_searched
               /\ ~state'.current_phase_verified
               /\ ~state'.current_phase_risk_assessed
               /\ ~state'.phase_complete
               /\ (pc = "supervisor"
                      => state'.current_phase = state.current_phase + 1) ]_vars

\* The supervisor has just advanced past a plan the phase strategist
\* extended: the plan holds a phase with the strategist's queries, and
\* current_phase, which add_phases leaves inside the plan, is beyond it.
C8_Witness ==
    /\ pc = "query_refiner"
    /\ \E i \in 1..Len(state.research_plan) :
           Len(state.research_plan[i].queries) = 2
    /\ state.current_phase > Len(state.research_plan)
    /\ ~state.dynamic_phases
    /\ ~state.phase_complete
    /\ ~state.current_phase_searched
    /\ ~state.current_phase_verified
    /\ ~state.current_phase_risk_assessed

\* C9: a transition that leaves current_phase where it was turns none of
\* the three per-phase flags from true to false.
C9_FlagsOnlyRise ==
    [][ state'.current_phase = state.current_phase
            => /\ state.current_phase_searched => state'.current_phase_searched
               /\ state.current_phase_verified => state'.current_phase_verified
               /\ state.current_phase_risk_assessed
                      => state'.current_phase_risk_assessed ]_vars

\* C10: no transition decreases current_phase or max_phases.
C10_PhasesMonotone ==
    [][ /\ state'.current_phase >= state.current_phase
        /\ state'.max_phases >= state.max_phases ]_vars

\* C11: current_phase never exceeds max_phases, whatever step name the
\* routing delegate returns.
C11_PhaseWithinMax ==
    state.current_phase <= state.max_phases

\* C12: when the supervisor follows the table, at most one of the ten rule
\* conditions holds in any state a tick can begin in.
C12_RulesExclusive ==
    pc = "supervisor" => Cardinality({i \in Rules : Rule(i, state)}) <= 1

\* C13: a verifier invocation that finds no extracted fact beyond
\* facts_verified_count calls no delegate or tool and changes the state in
\* current_phase_verified alone, which it sets true: the cursor, every
\* accumulator and the audit log stay as they were.
C13_VerifierSkipFrame ==
    [][ (pc = "verifier" /\ pc' = "supervisor"
            /\ state.facts_verified_count >= Len(state.extracted_facts))
            => /\ delegate' = "not_called"
               /\ state' = [state EXCEPT !.current_phase_verified = TRUE]
               /\ verifier_seen' = verifier_seen ]_vars

\* The verifier has just skipped with five facts extracted and the cursor
\* at five.
C13_Witness ==
    /\ pc = "supervisor"
    /\ state.next_action = "verifier"
    /\ delegate = "not_called"
    /\ Len(state.extracted_facts) = MIN_FACTS_FOR_VERIFIER
    /\ state.facts_verified_count = MIN_FACTS_FOR_VERIFIER
    /\ state.current_phase_verified
    /\ state.audit_log.last = "route_decision"

C15_VerifierCeilingNeverRaises ==
    [][ (pc = "verifier" /\ (supersteps' > supersteps \/ delegate' = "raised")
            /\ \E i \in 1..Len(rounds') : rounds'[i] = "recursion_limit")
            => /\ pc' = "supervisor"
               /\ state'.current_phase_verified
               /\ state'.facts_verified_count = Len(state.extracted_facts) ]_vars

\* C16: a verifier invocation whose main loop exhausted its step budget
\* without a submission runs the submit-only round before any fact is
\* added to unverified_claims.
C16_CeilingForcesSubmitRound ==
    [][ (pc = "verifier" /\ supersteps' > supersteps
            /\ rounds' # <<>> /\ rounds'[1] = "recursion_limit")
            => \/ Len(rounds') >= 2
               \/ state'.unverified_claims = state.unverified_claims ]_vars

\* C17: a verifier invocation that returns with no submission from any
\* round it ran adds nothing to verified_facts and adds to unverified_claims
\* one entry per fact of its delta, in the delta's order.
C17_NoSubmissionKeepsEveryFact ==
    [][ (pc = "verifier" /\ supersteps' > supersteps /\ rounds' # <<>>
            /\ \A i \in 1..Len(rounds') : rounds'[i] # "submitted")
            => /\ state'.verified_facts = state.verified_facts
               /\ state'.unverified_claims =
                      state.unverified_claims
                          \o Texts(SliceFrom(state.extracted_facts,
                                             state.facts_verified_count)) ]_vars

\* One call of ModelRouter.invoke, for every chain of up to MaxChain models.
InitRouter ==
    /\ Start(MaxSupersteps, {FALSE})
    /\ state.max_phases = 1
    /\ router \in RouterCalls
    /\ IdleBut("router")

NextRouter ==
    \/ RouterAttempt
    \/ RouterExhausted

SpecRouter == InitRouter /\ [][NextRouter]_vars

\* C18: invoke tries the models in chain order, each at most once and only
\* after every earlier one raised; once it has returned, the result is that
\* of the first model that does not raise and no later model was tried; once
\* it has raised, every model was tried and raised, the error names the task
\* and the last model's error, and there is no result.
C18_RouterFallbackOrder ==
    LET n == Len(router.all_models)
        failed(i) == router.all_models[i] = "raises"
    IN  /\ \A i \in 1..n :
               /\ router.attempts[i] <= 1
               /\ router.attempts[i] = 1
                      => \A j \in 1..(i - 1) : router.attempts[j] = 1 /\ failed(j)
        /\ router.status = "returned"
               => /\ ~failed(router.result.model)
                  /\ \A j \in 1..(router.result.model - 1) : failed(j)
                  /\ router.result.value = router.all_models[router.result.model]
                  /\ router.attempts[router.result.model] = 1
                  /\ \A j \in (router.result.model + 1)..n : router.attempts[j] = 0
                  /\ router.error = NULL
        /\ router.status = "raised"
               => /\ \A i \in 1..n : failed(i) /\ router.attempts[i] = 1
                  /\ router.error = [task |-> router.task, cause |-> n]
                  /\ router.result = NULL
        /\ router.status = "running" => router.result = NULL /\ router.error = NULL

\* invoke has returned the last fallback's result after the primary and the
\* first fallback raised.
C18_Witness ==
    /\ router.status = "returned"
    /\ Len(router.all_models) = MaxChain
    /\ router.result.model = MaxChain
    /\ router.last_error = MaxChain - 1

\* C19: with structured_output given, invoke returns only instances of the
\* requested schema.
C19_RouterReturnsSchemaOnly ==
    (router.status = "returned" /\ router.structured_output)
        => router.result.value = "schema"

\* C20: a search-and-analyze invocation with n > 0 pending queries records
\* the first min(6, n) of them, in order, as executed, leaves the other
\* n - min(6, n) pending in their order, and sets current_phase_searched
\* to true exactly when none is left.
C20_SearchBatch ==
    [][ (pc = "search_and_analyze" /\ supersteps' > supersteps
            /\ state.pending_queries # <<>>)
            => LET n == Len(state.pending_queries)
                   k == IF n < MAX_QUERIES_PER_BATCH THEN n ELSE MAX_QUERIES_PER_BATCH
                   was == Len(state.search_queries_executed)
               IN  /\ Len(state'.search_queries_executed) = was + k
                   /\ \A i \in 1..was : state'.search_queries_executed[i]
                                           = state.search_queries_executed[i]
                   /\ \A i \in 1..k : state'.search_queries_executed[was + i].query
                                         = state.pending_queries[i]
                   /\ Len(state'.pending_queries) = n - k
                   /\ \A i \in 1..(n - k) : state'.pending_queries[i]
                                               = state.pending_queries[k + i]
                   /\ state'.current_phase_searched
                          <=> (state'.pending_queries = <<>>) ]_vars

\* A pass over seven pending queries has just returned: six are recorded
\* as executed, the seventh is still pending and the phase is not searched.
C20_Witness ==
    /\ pc = "supervisor"
    /\ state.next_action = "search_and_analyze"
    /\ delegate = "returned"
    /\ Len(state.search_queries_executed) = MAX_QUERIES_PER_BATCH
    /\ state.pending_queries = <<MaxQueries>>
    /\ ~state.current_phase_searched

\* C21: when the query refiner returns, whatever the delegate proposed, no
\* text of pending_queries is the query text of an entry of
\* search_queries_executed.
C21_RefinerNeverReemits ==
    [][(pc = "query_refiner" /\ pc' = "supervisor") =>
          \A i \in 1..Len(state'.pending_queries) :
              \A j \in 1..Len(state'.search_queries_executed) :
                  state'.pending_queries[i] #
                      state'.search_queries_executed[j].query]_vars

\* The refiner has just returned fewer queries than the delegate proposed:
\* the executed ones were taken out and the others are pending.
C21_Witness ==
    /\ pc = "supervisor"
    /\ state.audit_log.last = "generate_queries"
    /\ state.search_queries_executed # <<>>
    /\ state.pending_queries # <<>>
    /\ state.pending_queries[1] = Len(state.search_queries_executed) + 1

\* C22: for every result of the planning delegate, the planner's patch sets
\* research_plan to the first min(k, max_phases) of the k phases the result
\* carries, in order (to the empty list when the result is no plan), sets
\* current_phase to 1 and phase_complete and the three per-phase flags to
\* false; and the state after a planner step carries one of these patches.
C22_PlannerPatch ==
    [][(pc = "planner" /\ pc' = "supervisor") =>
          /\ \A result \in PlannerOutputs :
                LET patch == PlannerPatch(state, plan_phases(result))
                    k == IF result.is_plan THEN Len(result.phases) ELSE 0
                    kept == Min(k, state.max_phases)
                IN  /\ Len(patch.research_plan) = kept
                    /\ \A i \in 1..kept :
                          patch.research_plan[i] = result.phases[i]
                    /\ patch.current_phase = 1
                    /\ ~patch.phase_complete
                    /\ ~patch.current_phase_searched
                    /\ ~patch.current_phase_verified
                    /\ ~patch.current_phase_risk_assessed
          /\ \E result \in PlannerOutputs :
                state'.research_plan =
                    PlannerPatch(state, plan_phases(result)).research_plan
          /\ Len(state'.research_plan) <= state.max_phases
          /\ state'.current_phase = 1
          /\ ~state'.phase_complete
          /\ ~state'.current_phase_searched
          /\ ~state'.current_phase_verified
          /\ ~state'.current_phase_risk_assessed]_vars

\* The planner has just returned a plan that fills max_phases, under a
\* ceiling lower than the longest plan the delegate writes.
C22_Witness ==
    /\ pc = "supervisor"
    /\ state.audit_log.last = "generate_plan"
    /\ state.max_phases < MaxPlanGen
    /\ Len(state.research_plan) = state.max_phases
    /\ state.current_phase = 1

\* The strategist's results that add k >= 1 phases.
AddsPhases(result) ==
    /\ result.is_decision
    /\ result.decision.action = "add_phases"
    /\ result.decision.phases_to_add # <<>>

\* C23: when the strategist's decision is add_phases with k >= 1 phases and
\* the plan has n phases, the patch keeps the n plan entries as a prefix,
\* appends the k phases numbered n+1..n+k, sets max_phases = n+k and
\* current_phase = n+1, sets phase_complete and the three per-phase flags
\* false, sets dynamic_phases false and sets pending_queries to the queries
\* of phase n+1; and the state after such a step carries that patch.
C23_StrategistAddsPhases ==
    [][(pc = "phase_strategist" /\ pc' = "supervisor") =>
          /\ \A result \in {r \in StrategistOutputs : AddsPhases(r)} :
                LET added == result.decision.phases_to_add
                    patch == PhaseStrategistPatch(state, result.decision)
                    n == Len(state.research_plan)
                    k == Len(added)
                IN  /\ Len(patch.research_plan) = n + k
                    /\ SubSeq(patch.research_plan, 1, n) = state.research_plan
                    /\ \A i \in 1..k :
                          /\ patch.research_plan[n + i].phase_number = n + i
                          /\ patch.research_plan[n + i].queries = added[i].queries
                    /\ patch.max_phases = n + k
                    /\ patch.current_phase = n + 1
                    /\ ~patch.phase_complete
                    /\ ~patch.current_phase_searched
                    /\ ~patch.current_phase_verified
                    /\ ~patch.current_phase_risk_assessed
                    /\ ~patch.dynamic_phases
                    /\ patch.pending_queries = added[1].queries
          /\ \E result \in StrategistOutputs :
                state' = Merge(state, PhaseStrategistPatch(
                                          state, strategy_decision(result)))
          /\ state'.research_plan # state.research_plan =>
                /\ state'.max_phases = Len(state'.research_plan)
                /\ state'.current_phase = Len(state.research_plan) + 1
                /\ state'.pending_queries =
                       state'.research_plan[state'.current_phase].queries
                /\ ~state'.dynamic_phases]_vars

\* The strategist has just added phases to a plan of one phase or more: the
\* run is in the first new phase with that phase's queries pending.
C23_Witness ==
    /\ pc = "supervisor"
    /\ state.audit_log.last = "phase_decision"
    /\ ~state.dynamic_phases
    /\ Len(state.research_plan) = state.max_phases
    /\ state.current_phase > 1
    /\ state.current_phase < state.max_phases
    /\ state.research_plan[state.current_phase].phase_number = state.current_phase
    /\ state.pending_queries = state.research_plan[state.current_phase].queries
    /\ ~state.phase_complete

\* C24: when the strategist's decision is synthesize, or add_phases with no
\* phase, or the result is no decision, the patch has the audit_log key
\* only: research_plan, max_phases, current_phase, the flags, dynamic_phases
\* and pending_queries keep their values over the step.
C24_StrategistSynthesizeFrame ==
    [][(pc = "phase_strategist" /\ pc' = "supervisor") =>
          /\ \A result \in {r \in StrategistOutputs : ~AddsPhases(r)} :
                DOMAIN PhaseStrategistPatch(state, strategy_decision(result))
                    = {"audit_log"}
          /\ state'.research_plan = state.research_plan =>
                \A key \in DOMAIN state :
                    key # "audit_log" => state'[key] = state[key]]_vars

\* The strategist has just chosen to synthesize: the run is still in
\* dynamic mode, its phase complete, with the plan it had.
C24_Witness ==
    /\ pc = "supervisor"
    /\ state.audit_log.last = "phase_decision"
    /\ state.dynamic_phases
    /\ state.phase_complete
    /\ state.research_plan # <<>>

\* One call of graph_builder_node, for every input of up to MaxEntities
\* entities and MaxRelationships relationships and every outcome of each
\* write.
InitBuilder ==
    /\ Start(MaxSupersteps, {FALSE})
    /\ state.max_phases = 1
    /\ builder \in BuilderCalls
    /\ IdleBut("builder")

NextBuilder ==
    \/ BuilderEntity
    \/ BuilderRelationship
    \/ BuilderReturns

SpecBuilder == InitBuilder /\ [][NextBuilder]_vars

\* C25: whichever writes fail, the graph builder does not raise; it makes
\* one write, in order, for every entity of a recognized type with a name
\* and for every relationship with both endpoints named, and none for an
\* entity of unknown type; graph_nodes_created and
\* graph_relationships_created list the writes that succeeded and no other;
\* and the patch it returns has phase_complete = true.
C25_BuilderIsolatesWrites ==
    LET b == builder
        n == Len(b.entities)
        item(at) == IF at <= n THEN b.entities[at] ELSE b.relationships[at - n]
        written(at) ==
            IF at <= n
            THEN Lower(item(at).type) \in RecognizedTypes /\ item(at).name # ""
            ELSE item(at).source_entity # "" /\ item(at).target_entity # ""
        passed == IF b.status = "idle" THEN 0 ELSE b.at - 1
        due == SelectSeq([at \in 1..passed |-> at], written)
        ok_nodes == SelectSeq(b.attempts, LAMBDA a : a.ok /\ a.at <= n)
        ok_rels == SelectSeq(b.attempts, LAMBDA a : a.ok /\ a.at > n)
    IN  /\ b.status # "raised"
        /\ [i \in 1..Len(b.attempts) |-> b.attempts[i].at] = due
        /\ b.nodes_created =
               [i \in 1..Len(ok_nodes) |-> NodeLabel(item(ok_nodes[i].at))]
        /\ b.rels_created =
               [i \in 1..Len(ok_rels) |-> RelLabel(item(ok_rels[i].at))]
        /\ b.status = "returned" =>
               /\ passed = n + Len(b.relationships)
               /\ b.patch.graph_nodes_created = b.nodes_created
               /\ b.patch.graph_relationships_created = b.rels_created
               /\ b.patch.phase_complete

\* The builder has returned after it passed over an entity of unknown type,
\* a node write and an edge write failed and a later edge write succeeded.
C25_Witness ==
    /\ builder.status = "returned"
    /\ Len(builder.entities) = 2
    /\ Lower(builder.entities[1].type) \notin RecognizedTypes
    /\ Len(builder.attempts) = 3
    /\ builder.attempts[1] = [at |-> 2, ok |-> FALSE]
    /\ ~builder.attempts[2].ok
    /\ builder.attempts[3].ok
    /\ builder.nodes_created = <<>>
    /\ Len(builder.rels_created) = 1
    /\ builder.patch.phase_complete

C27_CancelSparesStepInFlight ==
    [][(pc \in valid_agents) =>
          /\ pc' # "cancelled"
          /\ cancelled_jobs' # cancelled_jobs =>
                 /\ cancelled_jobs' = cancelled_jobs \cup {RunId}
                 /\ pc' = pc
                 /\ state' = state]_vars

\* One job from start_research on (research.py 252-264: status queued in
\* _jobs and, when there is one, in Redis; a queue registered for it; the
\* task created), with up to MaxConsumers stream connections and one cancel
\* request.
InitStream ==
    /\ Start(MaxSupersteps, {FALSE})
    /\ state.max_phases = 1
    /\ \E redis_up \in BOOLEAN :
           stream = [StreamIdle EXCEPT
                        !.job = "queued", !.registered = TRUE,
                        !.task = "pending", !.redis_up = redis_up,
                        !.redis_job = IF redis_up THEN "queued" ELSE "none"]
    /\ IdleBut("stream")

NextStream ==
    \/ RunStarts
    \/ RunEmits
    \/ RunEnds
    \/ CancelHandler
    \/ \E c \in 1..MaxConsumers : StreamConnects(c)
    \/ \E c \in 1..MaxConsumers : StreamReceives(c)
    \/ \E c \in 1..MaxConsumers : StreamDisconnects(c)

SpecStream == InitStream /\ [][NextStream]_vars

\* C28: however consumers connect and disconnect while the run goes on, a
\* consumer receives the done event once, and only after the run has
\* reached a terminal status.  The part finite runs can show: no consumer
\* has received done twice, and every done event a consumer has received
\* carries a terminal status.
C28_DoneOnceAfterEnd ==
    \A c \in 1..MaxConsumers :
        /\ Len(stream.consumers[c].dones) <= 1
        /\ \A i \in 1..Len(stream.consumers[c].dones) :
               stream.consumers[c].dones[i] \in TerminalStatuses

\* C29: after a run has failed or been cancelled, the recursion ceiling
\* included, the result returned for it still carries the counts of the
\* findings and the audit log the run had accumulated.
C29_PartialResultsSurvive ==
    pc \in {"failed", "cancelled"} =>
        LET result == get_research(job_record(pc, state))
        IN  /\ result.facts_count = Len(state.verified_facts)
            /\ result.risk_flags_count = Len(state.risk_flags)
            /\ result.audit_log = state.audit_log

\* One message history of up to MaxMessages messages, as a delegate returns
\* it, read by one of the two nodes.
InitExtract ==
    /\ Start(MaxSupersteps, {FALSE})
    /\ state.max_phases = 1
    /\ \E messages \in Histories :
           extraction = [ExtractionIdle EXCEPT !.by = "delegate",
                                               !.messages = messages]
    /\ IdleBut("extraction")

NextExtract == Extracts

SpecExtract == InitExtract /\ [][NextExtract]_vars

\* C30: the findings search_and_analyze takes from a history, and the
\* verified_facts, unverified_claims and contradictions the verifier takes
\* from one, depend on the tool-call arguments only: every history with the
\* same tool calls in the same messages, whatever its free texts, yields
\* the same lists; and they are the arguments of the last submission call
\* (a list the call does not give is empty, as are all when no call is
\* present).
C30_ExtractionReadsArgsOnly ==
    LET messages == extraction.messages
        same_calls(other) ==
            /\ Len(other) = Len(messages)
            /\ \A i \in 1..Len(messages) :
                   other[i].tool_calls = messages[i].tool_calls
        twins == {other \in Histories : same_calls(other)}
        calls(tool) ==
            SelectSeq([i \in 1..Len(messages) |-> messages[i].tool_calls],
                      LAMBDA tcs : tcs # <<>> /\ tcs[1].name = tool)
        last_arg(tool, key) ==
            IF calls(tool) = <<>> THEN <<>>
            ELSE LET args == calls(tool)[Len(calls(tool))][1].args
                 IN  IF key \in DOMAIN args THEN args[key] ELSE <<>>
    IN  /\ extraction.by = "search_and_analyze" =>
               /\ \A key \in {"facts", "entities", "relationships"} :
                      extraction.result[key] = last_arg("submit_findings", key)
               /\ \A other \in twins :
                      extract_findings(other) = extraction.result
        /\ extraction.by = "verifier" =>
               /\ \A key \in {"verified_facts", "unverified_claims",
                               "contradictions"} :
                      extraction.result[key] = last_arg("submit_verification", key)
               /\ \A other \in twins :
                      extract_verification(other) = extraction.result

\* search_and_analyze has read a history of two submit_findings calls with
\* different arguments and a narrative in each message: it holds the second
\* call's facts and none of the first call's entities.
C30_Witness ==
    /\ extraction.by = "search_and_analyze"
    /\ Len(extraction.messages) = 2
    /\ \A i \in 1..2 :
           /\ extraction.messages[i].content = "narrative"
           /\ extraction.messages[i].tool_calls # <<>>
           /\ extraction.messages[i].tool_calls[1].name = "submit_findings"
    /\ extraction.messages[1].tool_calls[1].args.facts = <<1>>
    /\ extraction.result.facts = <<2>>
    /\ extraction.result.entities = <<>>

\* C31: risk_flags never holds two entries with the same flag text:
\* whatever the delegate returns, the risk assessor's patch has no flag
\* whose text is already in risk_flags.
C31_NoRepeatedFlag ==
    \A i \in 1..Len(state.risk_flags) :
        \A j \in (i + 1)..Len(state.risk_flags) :
            state.risk_flags[i] # state.risk_flags[j]

\* C32: every step name rules 1 to 9 of the decision table can emit is
\* dispatched by route_from_supervisor to the graph node of that name, and
\* the run reaches END only when next_action is FINISH.
C32_TableNamesAreNodes ==
    [][(pc = "supervisor" /\ pc' \notin {"supervisor", "failed", "cancelled"}) =>
          /\ state'.next_action \in {RuleAgent(i) : i \in 1..9} =>
                 pc' = state'.next_action
          /\ pc' = "END" => state'.next_action = "FINISH"]_vars

\* C33: search-and-analyze invoked with no pending queries returns a patch
\* that sets current_phase_searched to true: after its early exit the flag
\* is set.
C33_SearchSkipSetsFlag ==
    [][(pc = "search_and_analyze" /\ pc' = "supervisor"
            /\ state.pending_queries = <<>>) =>
          state'.current_phase_searched]_vars

\* The step the decision table selects in the dynamic-phases variant: rule 9
\* sends a run that is in dynamic mode and has completed phase 1 to the
\* phase strategist first; every other state gets the step of its first
\* matching rule.
DynamicRuleStep(s) ==
    IF FirstRule(s) = 9 /\ s.dynamic_phases /\ s.current_phase = 1
    THEN "phase_strategist"
    ELSE IF FirstRule(s) = 0 THEN "none" ELSE RuleStep(FirstRule(s))

\* A tick of the dynamic-phases variant whose delegate follows the table.
supervisor_follows_dynamic_rules ==
    /\ Running("supervisor")
    /\ \/ SupervisorCancelled
       \/ \E result \in IF DynamicRuleStep(state) = "none" THEN DynamicResults
                        ELSE {[kind |-> "decision",
                               next_agent |-> DynamicRuleStep(state)]} :
            SupervisorRoutes(result, dynamic_agents)
       \/ SupervisorRaises

\* The run of the dynamic-phases variant under a delegate that follows the
\* table.
InitDynamicRules == Start(MaxRuleSupersteps, {TRUE}) /\ IdleBut("graph")

NextDynamicRules ==
    \/ supervisor_follows_dynamic_rules
    \/ planner_node
    \/ query_refiner_node
    \/ search_and_analyze_node
    \/ verifier_node
    \/ risk_assessor_node
    \/ graph_builder_node
    \/ phase_strategist_node
    \/ synthesizer_node
    \/ GraphRecursionError
    \/ cancel_research

SpecDynamicRules == InitDynamicRules /\ [][NextDynamicRules]_vars

\* C34: in dynamic mode the phase strategist runs at most once: on the tick
\* after it returned synthesize (its audit entry is the last one and the run
\* is still in dynamic mode), when a rule of the table matches, the step
\* dispatched is the synthesizer.
C34_StrategistRunsOnce ==
    [][(pc = "supervisor" /\ state.audit_log.last = "phase_decision"
            /\ state.dynamic_phases /\ DynamicRuleStep(state) # "none"
            /\ pc' \in dynamic_agents) =>
          pc' = "synthesizer"]_vars

\* Graph-builder invocations that share one sink: the phases of a run and
\* the run after it.
NextSink ==
    \/ BuilderEntity
    \/ BuilderRelationship
    \/ BuilderReturns
    \/ BuilderInvoked

SpecSink == InitBuilder /\ [][NextSink]_vars

\* C35: each entity is written in one invocation only, so the state's
\* graph_nodes_created never has more entries than the state has entities,
\* and graph_relationships_created no more than it has relationships.
C35_WrittenOnce ==
    /\ Len(builder.graph_nodes_created) <= Len(builder.entities)
    /\ Len(builder.graph_relationships_created) <= Len(builder.relationships)

\* C36: terminal job statuses are absorbing: a cancel request that arrives
\* when the job's status in _jobs is completed, failed or cancelled is
\* rejected, and the status in _jobs, the status in Redis and the
\* cancellation set stay as they were, with Redis and without.
C36_TerminalAbsorbing ==
    LET c == stream.canceller
    IN  c.arrived \in TerminalStatuses =>
            /\ c.at \in {"read", "rejected"}
            /\ stream.job = c.arrived
            /\ stream.redis_job # "cancelled"
            /\ ~stream.cancelled

\* C37: under rule-following routing the query refiner is not selected on
\* two consecutive supervisor ticks within the same phase: the tick after a
\* refiner pass does not dispatch the refiner again for the phase it just
\* served.
C37_RefinerNotReselected ==
    [][(pc = "supervisor" /\ state.audit_log.last = "generate_queries"
            /\ pc' = "query_refiner") =>
          state'.current_phase # state.current_phase]_vars

\* C38: research_plan has a descriptor for the current phase: in every
\* reachable state with a non-empty plan, current_phase <= len(research_plan).
C38_PhaseHasDescriptor ==
    has_plan(state) => state.current_phase <= Len(state.research_plan)

\* C39: every entry the graph builder appends to graph_relationships_created
\* corresponds to an edge that exists in the sink after the invocation: an
\* edge between nodes of the entry's two names, of the entry's type or with
\* it as subtype.
C39_CreatedEdgesExist ==
    builder.status = "returned" =>
        \A i \in 1..Len(builder.rels_created) :
            LET entry == builder.rels_created[i]
            IN  \E e \in builder.sink_edges :
                    /\ e.from.name = entry.from_name
                    /\ e.to.name = entry.to_name
                    /\ entry.rel_type \in {e.type, e.rel_subtype}

\* C40: runs do not interfere in the graph sink: a node stays in the
\* subgraph of every run that upserted it, also after another run has
\* upserted an entity of the same type and name.
C40_RunsKeepTheirNodes ==
    \A n \in builder.sink_nodes :
        \A research_id \in n.upserted_by :
            n.label \in query_subgraph(builder.sink_nodes, research_id)

====
